---- MODULE Spec2Model ----
(***************************************************************************)
(* Model of the two five-stage generation pipelines of CASE_PROMPTS:       *)
(* script_bot.py (generate_bot) and script_post.py (generate_post).        *)
(*                                                                         *)
(* Python values are records [type, val]; val is the value's str().        *)
(* A dict is a TLA+ function from its keys to such values.  Texts that are *)
(* split or stripped (the stage-4 output) are sequences of characters.     *)
(* The Model Gateway (prompt | llm | parser) is the environment: each      *)
(* stage draws its response from a small set.  The variable tools holds    *)
(* the stage-2 mapping of either pipeline (tools in generate_bot, style in *)
(* generate_post); code holds the stage-4 text (code, post_content).       *)
(***************************************************************************)
EXTENDS Integers, Sequences, FiniteSets, TLC

VARIABLES pipeline, hasKey, argv, pc, analysis, tools, structure, code,
          review, prompts, calls, resp, file, opens, written, returned,
          exitStatus, printed, run, prev, cli

vars == <<pipeline, hasKey, argv, pc, analysis, tools, structure, code,
          review, prompts, calls, resp, file, opens, written, returned,
          exitStatus, printed, run, prev, cli>>

----------------------------------------------------------------------------
(* Python values *)

PyStr(s) == [type |-> "str", val |-> s]
PyList(s) == [type |-> "list", val |-> s]
PyInt(s) == [type |-> "int", val |-> s]
PyNone == [type |-> "NoneType", val |-> "None"]
PyDict(s) == [type |-> "dict", val |-> s]

\* str(v), as str.format renders a value into a template
Str(v) == v.val

\* bool(v)
Truthy(v) ==
    CASE v.type = "str" -> v.val # ""
      [] v.type = "list" -> v.val # "[]"
      [] v.type = "int" -> v.val # "0"
      [] v.type = "dict" -> v.val # "{}"
      [] OTHER -> FALSE

\* v[:n] is defined for strings and lists only
Sliceable(v) == v.type \in {"str", "list"}

\* v.strip() is defined for strings only
HasStrip(v) == v.type = "str"

\* d.get(k, default)
Get(d, k, default) == IF k \in DOMAIN d THEN d[k] ELSE default

\* a local variable that has not been assigned yet
Unbound == [unbound |-> PyNone]

----------------------------------------------------------------------------
(* Texts as character sequences: substring test, split and strip.  The     *)
(* character "^" stands for the backquote of the source.                   *)

Fence == <<"^", "^", "^">>
LangTag == <<"p", "y", "t", "h", "o", "n">>
TaggedFence == Fence \o LangTag
Whitespace == {" ", "\n", "\t"}

IsAt(s, sep, i) ==
    /\ i >= 1
    /\ i + Len(sep) - 1 <= Len(s)
    /\ SubSeq(s, i, i + Len(sep) - 1) = sep

\* s.find(sep) + 1: index of the first occurrence, 0 when there is none
Find(s, sep) ==
    IF \E i \in 1..Len(s) : IsAt(s, sep, i)
    THEN CHOOSE i \in 1..Len(s) :
            IsAt(s, sep, i) /\ \A j \in 1..(i - 1) : ~IsAt(s, sep, j)
    ELSE 0

\* sep in s
Contains(s, sep) == Find(s, sep) # 0

\* s.split(sep)[0]
SplitHead(s, sep) ==
    IF Contains(s, sep) THEN SubSeq(s, 1, Find(s, sep) - 1) ELSE s

\* what follows the first occurrence of sep
SplitRest(s, sep) == SubSeq(s, Find(s, sep) + Len(sep), Len(s))

\* s.split(sep)[1], defined when sep in s
SplitSecond(s, sep) == SplitHead(SplitRest(s, sep), sep)

RECURSIVE LStrip(_)
LStrip(s) ==
    IF s # <<>> /\ Head(s) \in Whitespace THEN LStrip(Tail(s)) ELSE s

RECURSIVE RStrip(_)
RStrip(s) ==
    IF s # <<>> /\ s[Len(s)] \in Whitespace
    THEN RStrip(SubSeq(s, 1, Len(s) - 1))
    ELSE s

\* s.strip()
Strip(s) == RStrip(LStrip(s))

----------------------------------------------------------------------------
(* Declared default mappings of the structured stages; the Cyrillic string *)
(* literals of the source are transliterated to ASCII.                    *)

BotAnalysisDefaults ==
    [bot_purpose |-> PyStr("Bazovyj funkcional"),
     key_features |-> PyStr("Obrabotka komand"),
     user_interactions |-> PyStr("Komandy"),
     complexity_level |-> PyStr("simple"),
     special_requirements |-> PyStr("Net")]

BotToolsDefaults ==
    [framework_version |-> PyStr("aiogram 3.x"),
     database |-> PyStr("none"),
     additional_libraries |-> PyStr(""),
     api_integrations |-> PyStr(""),
     middleware_needs |-> PyStr("logging"),
     state_management |-> PyStr("none")]

BotStructureDefaults ==
    [commands |-> PyStr("/start, /help"),
     handlers |-> PyStr("command_handler, message_handler"),
     states |-> PyStr(""),
     keyboards |-> PyStr(""),
     modules |-> PyStr("main"),
     data_models |-> PyStr(""),
     helper_functions |-> PyStr("")]

BotReviewDefaults ==
    [is_valid |-> PyStr("yes"),
     syntax_errors |-> PyStr("none"),
     structure_issues |-> PyStr("none"),
     import_issues |-> PyStr("none"),
     recommendations |-> PyStr("Kod gotov k ispolzovaniyu")]

PostAnalysisDefaults ==
    [post_goal |-> PyStr("Informirovanie"),
     target_audience |-> PyStr("Shirokaya auditoriya"),
     key_messages |-> PyStr("Osnovnaya informaciya po teme"),
     tone_style |-> PyStr("Nejtralnyj"),
     desired_length |-> PyStr("medium")]

PostStyleDefaults ==
    [structure |-> PyStr("Zagolovok, osnovnoj tekst, zaklyuchenie"),
     use_emoji |-> PyStr("no"),
     emoji_style |-> PyStr(""),
     cta |-> PyStr("Net"),
     hashtags |-> PyStr("Net"),
     formatting |-> PyStr("Abzacy")]

PostStructureDefaults ==
    [headline |-> PyStr("Zagolovok"),
     intro |-> PyStr("Vstuplenie"),
     main_blocks |-> PyStr("Osnovnoj kontent"),
     conclusion |-> PyStr("Zaklyuchenie"),
     cta_text |-> PyStr("")]

PostReviewDefaults ==
    [is_ready |-> PyStr("yes"),
     completeness |-> PyStr("Post zavershen"),
     structure_quality |-> PyStr("Horoshaya struktura"),
     engagement |-> PyStr("Dostatochno vovlekayushchij"),
     recommendations |-> PyStr("Post gotov k publikacii")]

----------------------------------------------------------------------------
(* Responses of the Model Gateway chain (prompt | llm | parser) *)

\* the llm call raised (transport, auth, quota)
GwError == [kind |-> "error"]
\* the llm returned text that SimpleJsonOutputParser cannot decode
Garbage == [kind |-> "garbage"]
\* the text decoded, but not into a JSON object (a list, a number, null)
NonDict == [kind |-> "nondict"]
\* the text decoded into the JSON object rec
Decoded(rec) == [kind |-> "dict", rec |-> rec]
\* the llm returned the raw text t (stage 4 has no JSON parser)
RawText(t) == [kind |-> "text", text |-> t]
\* the stage has not called the Gateway
NoCall == [kind |-> "none"]

\* chain.invoke(...) of a structured stage raises
InvokeRaises(r) == r.kind \in {"error", "garbage"}

\* result.get(...) in the stage's log line raises AttributeError
GetRaises(r) == r.kind # "dict"

----------------------------------------------------------------------------
(* script_bot.py: the five stage functions *)

bot_analysis_prompt(description) == [description |-> description]

bot_analysis_chain(r) ==
    IF InvokeRaises(r) \/ GetRaises(r)
    THEN BotAnalysisDefaults
    ELSE r.rec

bot_tools_prompt(an, description) ==
    [description |-> description,
     bot_purpose |-> Str(Get(an, "bot_purpose", PyStr(""))),
     key_features |-> Str(Get(an, "key_features", PyStr(""))),
     user_interactions |-> Str(Get(an, "user_interactions", PyStr(""))),
     complexity_level |-> Str(Get(an, "complexity_level", PyStr("simple"))),
     special_requirements |-> Str(Get(an, "special_requirements", PyStr("")))]

\* variant: the fallback mapping misses the api_integrations key
tools_selection_chain_dropkey(r) ==
    IF InvokeRaises(r) \/ GetRaises(r)
    THEN [f \in DOMAIN BotToolsDefaults \ {"api_integrations"} |-> BotToolsDefaults[f]]
    ELSE r.rec

tools_selection_chain(r) ==
    IF InvokeRaises(r) \/ GetRaises(r)
    THEN BotToolsDefaults
    ELSE r.rec

\* variant: framework_version is looked up under a misspelt key
bot_structure_prompt_typo(an, tl, description) ==
    [description |-> description,
     bot_purpose |-> Str(Get(an, "bot_purpose", PyStr(""))),
     key_features |-> Str(Get(an, "key_features", PyStr(""))),
     complexity_level |-> Str(Get(an, "complexity_level", PyStr("simple"))),
     framework_version |-> Str(Get(tl, "framework", PyStr("aiogram"))),
     database |-> Str(Get(tl, "database", PyStr("none"))),
     additional_libraries |-> Str(Get(tl, "additional_libraries", PyStr(""))),
     state_management |-> Str(Get(tl, "state_management", PyStr("none")))]

bot_structure_prompt(an, tl, description) ==
    [description |-> description,
     bot_purpose |-> Str(Get(an, "bot_purpose", PyStr(""))),
     key_features |-> Str(Get(an, "key_features", PyStr(""))),
     complexity_level |-> Str(Get(an, "complexity_level", PyStr("simple"))),
     framework_version |-> Str(Get(tl, "framework_version", PyStr("aiogram 3.x"))),
     database |-> Str(Get(tl, "database", PyStr("none"))),
     additional_libraries |-> Str(Get(tl, "additional_libraries", PyStr(""))),
     state_management |-> Str(Get(tl, "state_management", PyStr("none")))]

bot_structure_chain(r) ==
    IF InvokeRaises(r) \/ GetRaises(r)
    THEN BotStructureDefaults
    ELSE r.rec

code_prompt(an, tl, st, description) ==
    [description |-> description,
     bot_purpose |-> Str(Get(an, "bot_purpose", PyStr(""))),
     key_features |-> Str(Get(an, "key_features", PyStr(""))),
     complexity_level |-> Str(Get(an, "complexity_level", PyStr("simple"))),
     framework_version |-> Str(Get(tl, "framework_version", PyStr("aiogram 3.x"))),
     database |-> Str(Get(tl, "database", PyStr("none"))),
     additional_libraries |-> Str(Get(tl, "additional_libraries", PyList("[]"))),
     state_management |-> Str(Get(tl, "state_management", PyStr("none"))),
     commands |-> Str(Get(st, "commands", PyList("[]"))),
     handlers |-> Str(Get(st, "handlers", PyList("[]"))),
     states |-> Str(Get(st, "states", PyList("[]"))),
     keyboards |-> Str(Get(st, "keyboards", PyList("[]"))),
     modules |-> Str(Get(st, "modules", PyList("[]"))),
     data_models |-> Str(Get(st, "data_models", PyList("[]"))),
     helper_functions |-> Str(Get(st, "helper_functions", PyList("[]")))]

\* variant: the untagged fence is tested before the tagged one
Unwrap_untagged_first(t) ==
    Strip(IF Contains(t, Fence) THEN SplitHead(SplitSecond(t, Fence), Fence)
          ELSE IF Contains(t, TaggedFence) THEN SplitHead(SplitSecond(t, TaggedFence), Fence)
          ELSE t)

\* variant: the text is not cut at the closing fence
Unwrap_keep_tail(t) ==
    Strip(IF Contains(t, TaggedFence) THEN SplitRest(t, TaggedFence)
          ELSE IF Contains(t, Fence) THEN SplitRest(t, Fence)
          ELSE t)

\* the markdown clean-up of code_chain
Unwrap(t) ==
    Strip(IF Contains(t, TaggedFence) THEN SplitHead(SplitSecond(t, TaggedFence), Fence)
          ELSE IF Contains(t, Fence) THEN SplitHead(SplitSecond(t, Fence), Fence)
          ELSE t)

\* variant: code_chain catches the exception and returns an empty text
code_chain_swallow(r) ==
    IF r.kind = "error"
    THEN [raised |-> FALSE, value |-> <<>>]
    ELSE [raised |-> FALSE, value |-> Unwrap(r.text)]

\* code_chain has no try/except: a Gateway error propagates
code_chain(r) ==
    IF r.kind = "error"
    THEN [raised |-> TRUE]
    ELSE [raised |-> FALSE, value |-> Unwrap(r.text)]

bot_review_prompt(c) == [code |-> c]

\* variant: the fallback verdict rejects the code
bot_review_chain_reject(r) ==
    IF InvokeRaises(r) \/ GetRaises(r)
    THEN [BotReviewDefaults EXCEPT !["is_valid"] = PyStr("no")]
    ELSE r.rec

bot_review_chain(r) ==
    IF InvokeRaises(r) \/ GetRaises(r)
    THEN BotReviewDefaults
    ELSE r.rec

----------------------------------------------------------------------------
(* script_post.py: the five stage functions *)

\* source_text if source_text else "Не предоставлен"
SourceOrPlaceholder(source_text) ==
    IF source_text # "" THEN source_text ELSE "Ne predostavlen"

post_analysis_prompt(topic, source_text) ==
    [topic |-> topic, source_text |-> SourceOrPlaceholder(source_text)]

post_analysis_chain(r) ==
    IF InvokeRaises(r) \/ GetRaises(r)
    THEN PostAnalysisDefaults
    ELSE r.rec

post_style_prompt(an, topic) ==
    [topic |-> topic,
     post_goal |-> Str(Get(an, "post_goal", PyStr(""))),
     target_audience |-> Str(Get(an, "target_audience", PyStr(""))),
     key_messages |-> Str(Get(an, "key_messages", PyStr(""))),
     tone_style |-> Str(Get(an, "tone_style", PyStr(""))),
     desired_length |-> Str(Get(an, "desired_length", PyStr("medium")))]

style_selection_chain(r) ==
    IF InvokeRaises(r) \/ GetRaises(r)
    THEN PostStyleDefaults
    ELSE r.rec

post_structure_prompt(an, sty, topic) ==
    [topic |-> topic,
     post_goal |-> Str(Get(an, "post_goal", PyStr(""))),
     target_audience |-> Str(Get(an, "target_audience", PyStr(""))),
     tone_style |-> Str(Get(an, "tone_style", PyStr(""))),
     structure |-> Str(Get(sty, "structure", PyStr(""))),
     use_emoji |-> Str(Get(sty, "use_emoji", PyStr("no"))),
     cta |-> Str(Get(sty, "cta", PyStr(""))),
     hashtags |-> Str(Get(sty, "hashtags", PyStr("")))]

\* the log line slices result.get('headline', 'N/A')[:50] inside the try
post_structure_chain(r) ==
    IF InvokeRaises(r) \/ GetRaises(r)
    THEN PostStructureDefaults
    ELSE IF ~Sliceable(Get(r.rec, "headline", PyStr("N/A")))
    THEN PostStructureDefaults
    ELSE r.rec

content_prompt(an, sty, st, topic, source_text) ==
    [topic |-> topic,
     source_text |-> SourceOrPlaceholder(source_text),
     post_goal |-> Str(Get(an, "post_goal", PyStr(""))),
     target_audience |-> Str(Get(an, "target_audience", PyStr(""))),
     tone_style |-> Str(Get(an, "tone_style", PyStr(""))),
     desired_length |-> Str(Get(an, "desired_length", PyStr("medium"))),
     structure_format |-> Str(Get(sty, "structure", PyStr(""))),
     use_emoji |-> Str(Get(sty, "use_emoji", PyStr("no"))),
     formatting |-> Str(Get(sty, "formatting", PyStr(""))),
     headline |-> Str(Get(st, "headline", PyStr(""))),
     intro |-> Str(Get(st, "intro", PyStr(""))),
     main_blocks |-> Str(Get(st, "main_blocks", PyStr(""))),
     conclusion |-> Str(Get(st, "conclusion", PyStr(""))),
     cta_text |-> Str(Get(st, "cta_text", PyStr("")))]

\* variant: the post text goes through the fence clean-up of code_chain
content_generation_chain_unwrap(r) ==
    IF r.kind = "error"
    THEN [raised |-> TRUE]
    ELSE [raised |-> FALSE, value |-> Unwrap(r.text)]

\* content_generation_chain has no try/except and only strips the text
content_generation_chain(r) ==
    IF r.kind = "error"
    THEN [raised |-> TRUE]
    ELSE [raised |-> FALSE, value |-> Strip(r.text)]

post_review_prompt(c) == [post_content |-> c]

post_review_chain(r) ==
    IF InvokeRaises(r) \/ GetRaises(r)
    THEN PostReviewDefaults
    ELSE r.rec

----------------------------------------------------------------------------
(* Stage tables of the two pipelines *)

Stages == 1..5
StructuredStages == {1, 2, 3, 5}

Defaults(p, k) ==
    CASE p = "bot" /\ k = 1 -> BotAnalysisDefaults
      [] p = "bot" /\ k = 2 -> BotToolsDefaults
      [] p = "bot" /\ k = 3 -> BotStructureDefaults
      [] p = "bot" /\ k = 5 -> BotReviewDefaults
      [] p = "post" /\ k = 1 -> PostAnalysisDefaults
      [] p = "post" /\ k = 2 -> PostStyleDefaults
      [] p = "post" /\ k = 3 -> PostStructureDefaults
      [] p = "post" /\ k = 5 -> PostReviewDefaults

StageChain(p, k, r) ==
    CASE p = "bot" /\ k = 1 -> bot_analysis_chain(r)
      [] p = "bot" /\ k = 2 -> tools_selection_chain(r)
      [] p = "bot" /\ k = 3 -> bot_structure_chain(r)
      [] p = "bot" /\ k = 4 -> code_chain(r)
      [] p = "bot" /\ k = 5 -> bot_review_chain(r)
      [] p = "post" /\ k = 1 -> post_analysis_chain(r)
      [] p = "post" /\ k = 2 -> style_selection_chain(r)
      [] p = "post" /\ k = 3 -> post_structure_chain(r)
      [] p = "post" /\ k = 4 -> content_generation_chain(r)
      [] p = "post" /\ k = 5 -> post_review_chain(r)

----------------------------------------------------------------------------
(* Inputs: command lines, Gateway responses, clock readings *)

\* sys.argv[1:]
Argvs == {<<>>, <<"ping bot">>, <<"ping bot", "notes">>}

Timestamps == {"2026-01-01 10:00:00", "2026-01-01 10:00:01"}

BotAnalysisRecords ==
    {[bot_purpose |-> PyStr("reply pong"),
      key_features |-> PyStr("ping command"),
      user_interactions |-> PyStr("commands"),
      complexity_level |-> PyStr("medium"),
      special_requirements |-> PyStr("fast")],
     [bot_purpose |-> PyStr("reply pong")]}

BotToolsRecords ==
    {[framework_version |-> PyStr("aiogram 3.4"),
      database |-> PyStr("sqlite"),
      additional_libraries |-> PyStr("requests"),
      api_integrations |-> PyStr("weather"),
      middleware_needs |-> PyStr("antispam"),
      state_management |-> PyStr("FSM")],
     [framework_version |-> PyStr("aiogram 3.4"),
      database |-> PyStr("sqlite"),
      additional_libraries |-> PyList("['requests']"),
      api_integrations |-> PyStr("weather"),
      middleware_needs |-> PyStr("antispam"),
      state_management |-> PyStr("FSM")],
     [database |-> PyStr("sqlite")]}

BotStructureRecords ==
    {[commands |-> PyStr("/ping"),
      handlers |-> PyStr("ping_handler"),
      states |-> PyStr("idle"),
      keyboards |-> PyStr("inline"),
      modules |-> PyStr("bot"),
      data_models |-> PyStr("User"),
      helper_functions |-> PyStr("fmt")],
     [commands |-> PyList("['/ping']")]}

BotReviewRecords ==
    {[is_valid |-> PyStr("no"),
      syntax_errors |-> PyStr("line 1"),
      structure_issues |-> PyStr("no main"),
      import_issues |-> PyStr("aiogram 2"),
      recommendations |-> PyStr("rewrite")],
     [is_valid |-> PyStr("yes")]}

PostAnalysisRecords ==
    {[post_goal |-> PyStr("teach"),
      target_audience |-> PyStr("developers"),
      key_messages |-> PyStr("ping pong"),
      tone_style |-> PyStr("friendly"),
      desired_length |-> PyStr("short")],
     [post_goal |-> PyStr("teach")]}

PostStyleRecords ==
    {[structure |-> PyStr("list"),
      use_emoji |-> PyStr("yes"),
      emoji_style |-> PyStr("few"),
      cta |-> PyStr("subscribe"),
      hashtags |-> PyStr("#bot"),
      formatting |-> PyStr("bold")],
     [use_emoji |-> PyStr("yes")]}

PostStructureRecords ==
    {[headline |-> PyStr("Ping"),
      intro |-> PyStr("hook"),
      main_blocks |-> PyStr("blocks"),
      conclusion |-> PyStr("end"),
      cta_text |-> PyStr("subscribe")],
     [headline |-> PyInt("5"),
      intro |-> PyStr("hook"),
      main_blocks |-> PyStr("blocks"),
      conclusion |-> PyStr("end"),
      cta_text |-> PyStr("subscribe")],
     [intro |-> PyStr("hook")]}

PostReviewRecords ==
    {[is_ready |-> PyStr("no"),
      completeness |-> PyStr("draft"),
      structure_quality |-> PyStr("weak"),
      engagement |-> PyStr("low"),
      recommendations |-> PyStr("rewrite")],
     [is_ready |-> PyStr("yes")]}

Records(p, k) ==
    CASE p = "bot" /\ k = 1 -> BotAnalysisRecords
      [] p = "bot" /\ k = 2 -> BotToolsRecords
      [] p = "bot" /\ k = 3 -> BotStructureRecords
      [] p = "bot" /\ k = 5 -> BotReviewRecords
      [] p = "post" /\ k = 1 -> PostAnalysisRecords
      [] p = "post" /\ k = 2 -> PostStyleRecords
      [] p = "post" /\ k = 3 -> PostStructureRecords
      [] p = "post" /\ k = 5 -> PostReviewRecords

\* raw texts the llm may return at stage 4
RawTexts ==
    {<<"\n", "x", " ", "y", "\n">>,
     TaggedFence \o <<"\n", "x", "\n">> \o Fence \o <<"z">>,
     <<"a", " ">> \o Fence \o <<"\n", "x", "\n">> \o Fence}

Responses(p, k) ==
    IF k = 4
    THEN {GwError} \cup {RawText(t) : t \in RawTexts}
    ELSE {GwError, Garbage, NonDict} \cup {Decoded(rec) : rec \in Records(p, k)}

----------------------------------------------------------------------------
(* State *)

\* content of the output file before the run
Prior == <<[part |-> "prior", complete |-> TRUE, text |-> <<>>]>>

NoReturn == [set |-> FALSE]
Return(v) == [set |-> TRUE, value |-> v]

\* exit status of a process that has not exited
Running == -1

\* what an earlier invocation of the script left behind
NoPrev == [set |-> FALSE]

\* common_prompts.py, the interactive parent program, before it has loaded
\* anything: pc is its position, prompts is manager.prompts, index and got
\* are the argument and the result of get_prompt, said is the last message
\* of the selection loop, sent is the list of prompts handed to
\* send_request, typed and disk are the operator's input lines and the files
\* that exist, read is the number of lines consumed, lines / first_line /
\* content are the locals and the return value of get_multiline_input
CliIdle ==
    [pc |-> "idle", prompts |-> <<>>, index |-> 0, got |-> NoReturn,
     selected_prompt |-> PyNone, said |-> "", sent |-> <<>>,
     typed |-> <<>>, disk |-> {}, read |-> 0,
     lines |-> <<>>, first_line |-> TRUE, content |-> NoReturn]

Description == argv[1]
SourceText == IF Len(argv) > 1 THEN argv[2] ELSE ""

Init ==
    /\ pipeline \in {"bot", "post"}
    /\ hasKey \in BOOLEAN
    /\ argv \in Argvs
    /\ pc = "main"
    /\ analysis = Unbound
    /\ tools = Unbound
    /\ structure = Unbound
    /\ code = <<>>
    /\ review = Unbound
    /\ prompts = [k \in Stages |-> Unbound]
    /\ calls = [k \in Stages |-> 0]
    /\ resp = [k \in Stages |-> NoCall]
    /\ file = Prior
    /\ opens = 0
    /\ written = 0
    /\ returned = NoReturn
    /\ exitStatus = Running
    /\ printed = {}
    /\ run = 1
    /\ prev = NoPrev
    /\ cli = CliIdle

\* the process ends with the given status after printing msg
Exit(status, msg) ==
    /\ pc' = "exited"
    /\ exitStatus' = status
    /\ printed' = printed \cup {msg}

\* variant: create_llm does not check the credential
CreateLlmExits_never == FALSE

\* create_llm: sys.exit(1) when OPENAI_API_KEY is not set
CreateLlmExits == ~hasKey

\* the prompt a stage renders from the values held by the orchestrator
StagePrompt(k) ==
    IF pipeline = "bot"
    THEN CASE k = 1 -> bot_analysis_prompt(Description)
           [] k = 2 -> bot_tools_prompt(analysis, Description)
           [] k = 3 -> bot_structure_prompt(analysis, tools, Description)
           [] k = 4 -> code_prompt(analysis, tools, structure, Description)
           [] k = 5 -> bot_review_prompt(code)
    ELSE CASE k = 1 -> post_analysis_prompt(Description, SourceText)
           [] k = 2 -> post_style_prompt(analysis, Description)
           [] k = 3 -> post_structure_prompt(analysis, tools, Description)
           [] k = 4 -> content_prompt(analysis, tools, structure, Description, SourceText)
           [] k = 5 -> post_review_prompt(code)

\* what the Gateway may answer to stage k: in a second invocation with the
\* same brief the deterministic stub repeats its answer to the same prompt
Answers(k) ==
    IF run = 1 THEN Responses(pipeline, k) ELSE {prev.resp[k]}

\* variant: undecodable text makes the stage call the Gateway a second time
Call_retry(k, r) ==
    /\ prompts' = [prompts EXCEPT ![k] = StagePrompt(k)]
    /\ calls' = [calls EXCEPT ![k] = IF r = Garbage THEN @ + 2 ELSE @ + 1]
    /\ resp' = [resp EXCEPT ![k] = r]

\* one Gateway call of stage k answered by r
Call(k, r) ==
    /\ prompts' = [prompts EXCEPT ![k] = StagePrompt(k)]
    /\ calls' = [calls EXCEPT ![k] = @ + 1]
    /\ resp' = [resp EXCEPT ![k] = r]

----------------------------------------------------------------------------
(* main and the orchestrators generate_bot / generate_post *)

\* main: the argument check that precedes the try block
Main ==
    /\ pc = "main"
    /\ IF Len(argv) < 1
       THEN Exit(1, "usage")
       ELSE pc' = "stage1" /\ UNCHANGED <<exitStatus, printed>>
    /\ UNCHANGED <<cli, run, prev, pipeline, hasKey, argv, analysis, tools, structure, code,
                   review, prompts, calls, resp, file, opens, written, returned>>

Stage1 ==
    /\ pc = "stage1"
    /\ IF CreateLlmExits
       THEN /\ Exit(1, "no_api_key")
            /\ UNCHANGED <<analysis, prompts, calls, resp>>
       ELSE \E r \in Answers(1) :
            /\ Call(1, r)
            /\ analysis' = StageChain(pipeline, 1, r)
            /\ pc' = "stage2"
            /\ UNCHANGED <<exitStatus, printed>>
    /\ UNCHANGED <<cli, run, prev, pipeline, hasKey, argv, tools, structure, code, review,
                   file, opens, written, returned>>

Stage2 ==
    /\ pc = "stage2"
    /\ IF CreateLlmExits
       THEN /\ Exit(1, "no_api_key")
            /\ UNCHANGED <<tools, prompts, calls, resp>>
       ELSE \E r \in Answers(2) :
            /\ Call(2, r)
            /\ tools' = StageChain(pipeline, 2, r)
            /\ pc' = "stage3"
            /\ UNCHANGED <<exitStatus, printed>>
    /\ UNCHANGED <<cli, run, prev, pipeline, hasKey, argv, analysis, structure, code, review,
                   file, opens, written, returned>>

\* len(v) is defined for strings and lists only
HasLen(v) == v.type \in {"str", "list"}

\* variant: storing the stage-3 mapping overwrites the stage-2 mapping
Stage3_clobber ==
    /\ pc = "stage3"
    /\ IF CreateLlmExits
       THEN /\ Exit(1, "no_api_key")
            /\ UNCHANGED <<structure, tools, prompts, calls, resp>>
       ELSE \E r \in Answers(3) :
            /\ Call(3, r)
            /\ structure' = StageChain(pipeline, 3, r)
            /\ tools' = structure'
            /\ IF pipeline = "post"
                  /\ ~HasLen(Get(structure', "headline", PyStr("N/A")))
               THEN Exit(1, "error")
               ELSE pc' = "stage4" /\ UNCHANGED <<exitStatus, printed>>
    /\ UNCHANGED <<cli, run, prev, pipeline, hasKey, argv, analysis, code, review,
                   file, opens, written, returned>>

\* generate_post takes len(headline) after stage 3; generate_bot only prints
Stage3 ==
    /\ pc = "stage3"
    /\ IF CreateLlmExits
       THEN /\ Exit(1, "no_api_key")
            /\ UNCHANGED <<structure, prompts, calls, resp>>
       ELSE \E r \in Answers(3) :
            /\ Call(3, r)
            /\ structure' = StageChain(pipeline, 3, r)
            /\ IF pipeline = "post"
                  /\ ~HasLen(Get(structure', "headline", PyStr("N/A")))
               THEN Exit(1, "error")
               ELSE pc' = "stage4" /\ UNCHANGED <<exitStatus, printed>>
    /\ UNCHANGED <<cli, run, prev, pipeline, hasKey, argv, analysis, tools, code, review,
                   file, opens, written, returned>>

\* stage 4 has no try/except: an exception reaches main's handler
Stage4 ==
    /\ pc = "stage4"
    /\ IF CreateLlmExits
       THEN /\ Exit(1, "no_api_key")
            /\ UNCHANGED <<code, prompts, calls, resp>>
       ELSE \E r \in Answers(4) :
            /\ Call(4, r)
            /\ IF StageChain(pipeline, 4, r).raised
               THEN Exit(1, "error") /\ UNCHANGED code
               ELSE /\ code' = StageChain(pipeline, 4, r).value
                    /\ pc' = "stage5"
                    /\ UNCHANGED <<exitStatus, printed>>
    /\ UNCHANGED <<cli, run, prev, pipeline, hasKey, argv, analysis, tools, structure, review,
                   file, opens, written, returned>>

\* the recommendations line is printed for a truthy value other than the
\* stage's default recommendation
PrintsRecommendations(rv) ==
    /\ "recommendations" \in DOMAIN rv
    /\ Truthy(rv["recommendations"])
    /\ rv["recommendations"] # Defaults(pipeline, 5)["recommendations"]

\* variant: a verdict other than "yes" sends the run back to stage 4
Stage5_regenerate ==
    /\ pc = "stage5"
    /\ IF CreateLlmExits
       THEN /\ Exit(1, "no_api_key")
            /\ UNCHANGED <<review, prompts, calls, resp>>
       ELSE \E r \in Answers(5) :
            /\ Call(5, r)
            /\ review' = StageChain(pipeline, 5, r)
            /\ pc' = IF review' = Defaults(pipeline, 5) \/ r.kind # "dict"
                     THEN "persist"
                     ELSE "stage4"
            /\ printed' = IF PrintsRecommendations(review')
                          THEN printed \cup {"recommendations"}
                          ELSE printed
            /\ UNCHANGED exitStatus
    /\ UNCHANGED <<cli, run, prev, pipeline, hasKey, argv, analysis, tools, structure, code,
                   file, opens, written, returned>>

Stage5 ==
    /\ pc = "stage5"
    /\ IF CreateLlmExits
       THEN /\ Exit(1, "no_api_key")
            /\ UNCHANGED <<review, prompts, calls, resp>>
       ELSE \E r \in Answers(5) :
            /\ Call(5, r)
            /\ review' = StageChain(pipeline, 5, r)
            /\ pc' = "persist"
            /\ printed' = IF PrintsRecommendations(review')
                          THEN printed \cup {"recommendations"}
                          ELSE printed
            /\ UNCHANGED exitStatus
    /\ UNCHANGED <<cli, run, prev, pipeline, hasKey, argv, analysis, tools, structure, code,
                   file, opens, written, returned>>

----------------------------------------------------------------------------
(* The save step: open(output_file, 'w') and the f.write calls *)

Chunk(part, text) == [part |-> part, complete |-> TRUE, text |-> text]
\* a write that failed after a strict prefix of its text reached the file
Partial(part) == [part |-> part, complete |-> FALSE, text |-> <<>>]

\* variant: the clock reading is also written into the first line
Chunks_stamped(t) ==
    IF pipeline = "bot"
    THEN <<Chunk("body", <<t>> \o code)>>
    ELSE <<Chunk("topic", <<Description, t>>),
           Chunk("date", <<t>>),
           Chunk("separator", <<>>),
           Chunk("body", code)>>

\* the f.write calls of one save, in order; t is the clock reading
Chunks(t) ==
    IF pipeline = "bot"
    THEN <<Chunk("body", code)>>
    ELSE <<Chunk("topic", <<Description>>),
           Chunk("date", <<t>>),
           Chunk("separator", <<>>),
           Chunk("body", code)>>

\* number of f.write calls of one save
NumChunks == IF pipeline = "bot" THEN 1 ELSE 4

\* variant: the save error is reported and re-raised to main
SaveFailed_raise ==
    /\ UNCHANGED returned
    /\ Exit(1, "save_error")

\* except Exception around the save: report and return the artifact; main
\* then logs success and the process ends with status 0
SaveFailed ==
    /\ returned' = Return(code)
    /\ Exit(0, "save_error")

\* variant: the file is opened before the review stage is called
PersistOpen_early ==
    /\ pc \in {"stage5", "persist"}
    /\ \/ /\ file' = <<>>
          /\ opens' = opens + 1
          /\ written' = 0
          /\ pc' = "writing"
          /\ UNCHANGED <<returned, exitStatus, printed>>
       \/ /\ SaveFailed
          /\ UNCHANGED <<file, opens, written>>
    /\ UNCHANGED <<cli, run, prev, pipeline, hasKey, argv, analysis, tools, structure, code,
                   review, prompts, calls, resp>>

\* variant: the file is opened for appending
PersistOpen_append ==
    /\ pc = "persist"
    /\ \/ /\ file' = file
          /\ opens' = opens + 1
          /\ written' = 0
          /\ pc' = "writing"
          /\ UNCHANGED <<returned, exitStatus, printed>>
       \/ /\ SaveFailed
          /\ UNCHANGED <<file, opens, written>>
    /\ UNCHANGED <<cli, run, prev, pipeline, hasKey, argv, analysis, tools, structure, code,
                   review, prompts, calls, resp>>

\* open(output_file, 'w') truncates the file, or raises and leaves it alone
PersistOpen ==
    /\ pc = "persist"
    /\ \/ /\ file' = <<>>
          /\ opens' = opens + 1
          /\ written' = 0
          /\ pc' = "writing"
          /\ UNCHANGED <<returned, exitStatus, printed>>
       \/ /\ SaveFailed
          /\ UNCHANGED <<file, opens, written>>
    /\ UNCHANGED <<cli, run, prev, pipeline, hasKey, argv, analysis, tools, structure, code,
                   review, prompts, calls, resp>>

\* one f.write: the whole text reaches the file, or the write raises with
\* nothing or a strict prefix of the text in the file
PersistWrite ==
    /\ pc = "writing"
    /\ written < NumChunks
    /\ \E t \in Timestamps :
       \/ /\ file' = Append(file, Chunks(t)[written + 1])
          /\ written' = written + 1
          /\ UNCHANGED <<pc, returned, exitStatus, printed>>
       \/ /\ file' \in {file, Append(file, Partial(Chunks(t)[written + 1].part))}
          /\ SaveFailed
          /\ UNCHANGED written
    /\ UNCHANGED <<cli, run, prev, pipeline, hasKey, argv, analysis, tools, structure, code,
                   review, prompts, calls, resp, opens>>

\* generate_bot after the save: additional_libs.strip() raises for a truthy
\* value that is not a string
InstallHintRaises ==
    LET additional_libs == Get(tools, "additional_libraries", PyStr(""))
    IN /\ pipeline = "bot"
       /\ Truthy(additional_libs)
       /\ additional_libs # PyStr("none")
       /\ ~HasStrip(additional_libs)

\* the file is closed, the success banner printed and the artifact returned
Finish ==
    /\ pc = "writing"
    /\ written = NumChunks
    /\ IF InstallHintRaises
       THEN /\ pc' = "exited"
            /\ exitStatus' = 1
            /\ printed' = printed \cup {"success", "error"}
            /\ UNCHANGED returned
       ELSE /\ returned' = Return(code)
            /\ Exit(0, "success")
    /\ UNCHANGED <<cli, run, prev, pipeline, hasKey, argv, analysis, tools, structure, code,
                   review, prompts, calls, resp, file, opens, written>>

\* KeyboardInterrupt inside main's try block: reported, sys.exit(0)
Interrupt ==
    /\ pc \in {"stage1", "stage2", "stage3", "stage4", "stage5", "persist", "writing"}
    /\ Exit(0, "interrupted")
    /\ UNCHANGED <<cli, run, prev, pipeline, hasKey, argv, analysis, tools, structure, code,
                   review, prompts, calls, resp, file, opens, written, returned>>

Next ==
    \/ Main
    \/ Stage1
    \/ Stage2
    \/ Stage3
    \/ Stage4
    \/ Stage5
    \/ PersistOpen
    \/ PersistWrite
    \/ Finish
    \/ Interrupt

Spec == Init /\ [][Next]_vars

----------------------------------------------------------------------------
(* Two invocations with the same brief against a deterministic stub *)

\* after a complete run the script is invoked again with the same command
\* line and environment; the output file keeps what the first run wrote
Rerun ==
    /\ run = 1
    /\ pc = "exited"
    /\ exitStatus = 0
    /\ "success" \in printed
    /\ run' = 2
    /\ prev' = [set |-> TRUE, returned |-> returned, file |-> file, resp |-> resp]
    /\ pc' = "main"
    /\ analysis' = Unbound
    /\ tools' = Unbound
    /\ structure' = Unbound
    /\ code' = <<>>
    /\ review' = Unbound
    /\ prompts' = [k \in Stages |-> Unbound]
    /\ calls' = [k \in Stages |-> 0]
    /\ resp' = [k \in Stages |-> NoCall]
    /\ opens' = 0
    /\ written' = 0
    /\ returned' = NoReturn
    /\ exitStatus' = Running
    /\ printed' = {}
    /\ UNCHANGED <<cli, pipeline, hasKey, argv, file>>

NextRerun == Next \/ Rerun

SpecRerun == Init /\ [][NextRerun]_vars

TypeOK ==
    /\ pipeline \in {"bot", "post"}
    /\ pc \in {"main", "stage1", "stage2", "stage3", "stage4", "stage5",
               "persist", "writing", "exited"}
    /\ exitStatus \in {Running, 0, 1}
    /\ opens \in 0..1
    /\ written \in 0..NumChunks

----------------------------------------------------------------------------
(* common_prompts.py: generate_telegram_bot runs script_bot.py as a child  *)
(* process and reports on its return code                                  *)

\* generate_telegram_bot has read a non-empty description and started
\* [sys.executable, "script_bot.py", description]
InitParent ==
    /\ pipeline = "bot"
    /\ hasKey \in BOOLEAN
    /\ argv = <<"ping bot">>
    /\ pc = "main"
    /\ analysis = Unbound
    /\ tools = Unbound
    /\ structure = Unbound
    /\ code = <<>>
    /\ review = Unbound
    /\ prompts = [k \in Stages |-> Unbound]
    /\ calls = [k \in Stages |-> 0]
    /\ resp = [k \in Stages |-> NoCall]
    /\ file = Prior
    /\ opens = 0
    /\ written = 0
    /\ returned = NoReturn
    /\ exitStatus = Running
    /\ printed = {}
    /\ run = 1
    /\ prev = NoPrev
    /\ cli = [CliIdle EXCEPT !.pc = "subprocess"]

\* subprocess.run has returned: the message depends on returncode alone
ParentReports ==
    /\ cli.pc = "subprocess"
    /\ pc = "exited"
    /\ printed' = printed \cup {IF exitStatus = 0 THEN "parent_success" ELSE "parent_error"}
    /\ cli' = [cli EXCEPT !.pc = "reported"]
    /\ UNCHANGED <<run, prev, pipeline, hasKey, argv, pc, analysis, tools, structure,
                   code, review, prompts, calls, resp, file, opens, written,
                   returned, exitStatus>>

NextParent == Next \/ ParentReports

SpecParent == InitParent /\ [][NextParent]_vars

----------------------------------------------------------------------------
(* common_prompts.py: PromptsManager and the prompt-selection loop of main *)

\* most prompts load_prompts has appended
MaxPrompts == 3

\* the decoded content of a prompts/*.json file: list_prompts has called
\* .get on every loaded prompt, so each one is a JSON object
EmptyPrompt == PyDict("{}")
CodeStructurePrompt == PyDict("{'prompt_id': 'code_structure'}")
ReviewPrompt == PyDict("{'prompt_id': 'code_review'}")

PromptValues == {EmptyPrompt, CodeStructurePrompt, ReviewPrompt}

RECURSIVE ListsUpTo(_)
ListsUpTo(n) ==
    IF n = 0
    THEN {<<>>}
    ELSE LET shorter == ListsUpTo(n - 1)
         IN shorter \cup {Append(l, v) : l \in shorter, v \in PromptValues}

\* manager.prompts after load_prompts, which exits on an empty list
PromptLists == ListsUpTo(MaxPrompts) \ {<<>>}

\* the integers passed to get_prompt
Indexes == (0 - 2)..(MaxPrompts + 2)

\* variant: the lower bound of the range test admits 0, and self.prompts[-1]
\* is the last prompt
get_prompt_from_zero(ps, index) ==
    IF 0 <= index /\ index <= Len(ps)
    THEN IF index = 0 THEN ps[Len(ps)] ELSE ps[index]
    ELSE PyNone

\* PromptsManager.get_prompt: self.prompts[index - 1] counts from 0, ps[index]
\* from 1
get_prompt(ps, index) ==
    IF 0 < index /\ index <= Len(ps)
    THEN ps[index]
    ELSE PyNone

\* script_bot.py has not been started
PipelineNotStarted ==
    /\ pipeline = "bot"
    /\ hasKey = TRUE
    /\ argv = <<"ping bot">>
    /\ pc = "main"
    /\ analysis = Unbound
    /\ tools = Unbound
    /\ structure = Unbound
    /\ code = <<>>
    /\ review = Unbound
    /\ prompts = [k \in Stages |-> Unbound]
    /\ calls = [k \in Stages |-> 0]
    /\ resp = [k \in Stages |-> NoCall]
    /\ file = Prior
    /\ opens = 0
    /\ written = 0
    /\ returned = NoReturn
    /\ exitStatus = Running
    /\ printed = {}
    /\ run = 1
    /\ prev = NoPrev

pipelineVars == <<pipeline, hasKey, argv, pc, analysis, tools, structure, code,
                  review, prompts, calls, resp, file, opens, written, returned,
                  exitStatus, printed, run, prev>>

InitGetPrompt ==
    /\ PipelineNotStarted
    /\ \E ps \in PromptLists : \E i \in Indexes :
          cli = [CliIdle EXCEPT !.pc = "get_prompt", !.prompts = ps, !.index = i]

\* one call manager.get_prompt(index)
GetPromptStep ==
    /\ cli.pc = "get_prompt"
    /\ cli' = [cli EXCEPT !.pc = "got",
                          !.got = Return(get_prompt(cli.prompts, cli.index))]
    /\ UNCHANGED pipelineVars

NextGetPrompt == GetPromptStep

SpecGetPrompt == InitGetPrompt /\ [][NextGetPrompt]_vars

\* what the operator may type at the selection prompt: a word that ends the
\* program, a line int() rejects, a line int() turns into n
Quit == [kind |-> "quit", n |-> 0]
NotANumber == [kind |-> "text", n |-> 0]
Number(n) == [kind |-> "int", n |-> n]

Choices == {Quit, NotANumber} \cup {Number(n) : n \in Indexes}

\* selected_prompt.get('prompt_id') == 'code_structure'
IsCodeStructure(v) == v = CodeStructurePrompt

\* main has loaded the prompts, listed them and asks for a choice
InitMenu ==
    /\ PipelineNotStarted
    /\ \E ps \in PromptLists :
          cli = [CliIdle EXCEPT !.pc = "select", !.prompts = ps]

\* one pass of the selection loop up to its next input
Choose ==
    /\ cli.pc = "select"
    /\ \E c \in Choices :
          CASE c.kind = "quit" ->
                 cli' = [cli EXCEPT !.pc = "exited", !.said = "bye"]
            [] c.kind = "text" ->
                 cli' = [cli EXCEPT !.said = "not_a_number"]
            [] c.kind = "int" ->
                 LET got == get_prompt(cli.prompts, c.n)
                 IN IF Truthy(got)
                    THEN cli' = [cli EXCEPT !.index = c.n,
                                            !.selected_prompt = got,
                                            !.said = "selected",
                                            !.pc = IF IsCodeStructure(got)
                                                   THEN "submenu"
                                                   ELSE "question"]
                    ELSE cli' = [cli EXCEPT !.index = c.n,
                                            !.selected_prompt = got,
                                            !.said = "bad_number"]
    /\ UNCHANGED pipelineVars

\* show_code_structure_submenu returns '0', '1' or '2'
Submenu ==
    /\ cli.pc = "submenu"
    /\ \E c \in {"0", "1", "2"} :
          cli' = [cli EXCEPT !.pc = CASE c = "0" -> "select"
                                      [] c = "1" -> "question"
                                      [] c = "2" -> "bot"]
    /\ UNCHANGED pipelineVars

\* generate_telegram_bot has returned; yes_no_question decides between the
\* selection loop and sys.exit(0)
BackFromBot ==
    /\ cli.pc = "bot"
    /\ \E back \in BOOLEAN :
          cli' = [cli EXCEPT !.pc = IF back THEN "select" ELSE "exited",
                             !.said = IF back THEN "back_to_menu" ELSE "bye"]
    /\ UNCHANGED pipelineVars

\* after the loop: an empty question ends the program, any other question
\* goes to client.send_request(selected_prompt, user_question)
SendRequest ==
    /\ cli.pc = "question"
    /\ \E empty \in BOOLEAN :
          IF empty
          THEN cli' = [cli EXCEPT !.pc = "exited"]
          ELSE cli' = [cli EXCEPT !.pc = "done",
                                  !.sent = Append(@, cli.selected_prompt)]
    /\ UNCHANGED pipelineVars

NextMenu == Choose \/ Submenu \/ BackFromBot \/ SendRequest

SpecMenu == InitMenu /\ [][NextMenu]_vars

----------------------------------------------------------------------------
(* common_prompts.py: get_multiline_input *)

\* most lines the operator types before the end of input
MaxLines == 3

Paths == {"a.txt", "b.txt"}

\* the lines the operator may type
InputLines == {"file:a.txt", "file:b.txt", "hello", "END"}

\* line.strip().startswith('file:')
IsFileLine(line) == line \in {"file:a.txt", "file:b.txt"}

\* line.strip()[5:].strip()
PathOf(line) == IF line = "file:a.txt" THEN "a.txt" ELSE "b.txt"

RECURSIVE ScriptsUpTo(_)
ScriptsUpTo(n) ==
    IF n = 0
    THEN {<<>>}
    ELSE LET shorter == ScriptsUpTo(n - 1)
         IN shorter \cup {Append(t, l) : t \in shorter, l \in InputLines}

\* open(file_path, 'r') succeeds, raises FileNotFoundError, or raises
\* another exception
Disks == [Paths -> {"ok", "missing", "denied"}]

\* the return value: the stripped content of a file, or the typed lines
\* joined (no typed line of InputLines is blank)
FromFile(path) == [from |-> "file", path |-> path, lines |-> <<>>]
Manual(lines) == [from |-> "typed", path |-> "", lines |-> lines]

InitInput ==
    /\ PipelineNotStarted
    /\ \E t \in ScriptsUpTo(MaxLines) : \E d \in Disks :
          cli = [CliIdle EXCEPT !.pc = "input", !.typed = t, !.disk = d]

\* one pass of the while loop: input() and what follows it
ReadLine ==
    /\ cli.pc = "input"
    /\ IF cli.read = Len(cli.typed)
       THEN \* EOFError: break
            cli' = [cli EXCEPT !.pc = "returned",
                               !.content = Return(Manual(cli.lines))]
       ELSE LET line == cli.typed[cli.read + 1]
            IN IF line = "END"
               THEN cli' = [cli EXCEPT !.pc = "returned",
                                       !.read = @ + 1,
                                       !.content = Return(Manual(cli.lines))]
               ELSE IF cli.first_line /\ IsFileLine(line)
               THEN IF cli.disk[PathOf(line)] = "ok"
                    THEN cli' = [cli EXCEPT !.pc = "returned",
                                            !.read = @ + 1,
                                            !.content = Return(FromFile(PathOf(line)))]
                    ELSE cli' = [cli EXCEPT !.read = @ + 1,
                                            !.first_line = FALSE,
                                            !.said = IF cli.disk[PathOf(line)] = "missing"
                                                     THEN "file_not_found"
                                                     ELSE "read_error"]
               ELSE cli' = [cli EXCEPT !.read = @ + 1,
                                       !.first_line = FALSE,
                                       !.lines = Append(@, line)]
    /\ UNCHANGED pipelineVars

NextInput == ReadLine

SpecInput == InitInput /\ [][NextInput]_vars

----------------------------------------------------------------------------
(* Stage 4 alone: the text clean-up applied to every raw text of a bounded *)
(* set                                                                     *)

\* longest raw text, in tokens
MaxTokens == 6

\* a fence, the language tag, a letter, a newline, a single backquote
Tokens == {Fence, LangTag, <<"x">>, <<"\n">>, <<"^">>}

RECURSIVE TextsOf(_)
TextsOf(n) ==
    IF n = 0
    THEN {<<>>}
    ELSE LET shorter == TextsOf(n - 1)
         IN shorter \cup {t \o tok : t \in shorter, tok \in Tokens}

InitUnwrap ==
    /\ pipeline \in {"bot", "post"}
    /\ hasKey = TRUE
    /\ argv = <<"ping bot">>
    /\ pc = "unwrap"
    /\ analysis = Unbound
    /\ tools = Unbound
    /\ structure = Unbound
    /\ code = <<>>
    /\ review = Unbound
    /\ prompts = [k \in Stages |-> Unbound]
    /\ calls = [k \in Stages |-> 0]
    /\ \E t \in TextsOf(MaxTokens) :
          resp = [k \in Stages |-> IF k = 4 THEN RawText(t) ELSE NoCall]
    /\ file = Prior
    /\ opens = 0
    /\ written = 0
    /\ returned = NoReturn
    /\ exitStatus = Running
    /\ printed = {}
    /\ run = 1
    /\ prev = NoPrev
    /\ cli = CliIdle

\* code_chain / content_generation_chain from result.content on
UnwrapStep ==
    /\ pc = "unwrap"
    /\ code' = StageChain(pipeline, 4, resp[4]).value
    /\ pc' = "unwrapped"
    /\ UNCHANGED <<cli, run, prev, pipeline, hasKey, argv, analysis, tools, structure,
                   review, prompts, calls, resp, file, opens, written, returned,
                   exitStatus, printed>>

NextUnwrap == UnwrapStep

SpecUnwrap == InitUnwrap /\ [][NextUnwrap]_vars

----------------------------------------------------------------------------
(* Properties *)

\* the orchestrator's local that holds the mapping returned by stage k
StageVar(k) ==
    CASE k = 1 -> analysis
      [] k = 2 -> tools
      [] k = 3 -> structure
      [] k = 5 -> review

Interrupted == "interrupted" \in printed

\* the stage-4 text computed from the Gateway's answer
Artifact == StageChain(pipeline, 4, resp[4]).value

\* the output file holds the complete output of this run
FileComplete ==
    /\ Len(file) = NumChunks
    /\ \A i \in 1..Len(file) : file[i].complete
    /\ file[Len(file)] = Chunk("body", code)

\* C1: a Gateway error at any stage k of either pipeline ends the run in
\* Failed (exit status 1) at once: no later stage is invoked and the output
\* file is neither written nor overwritten.
C1_GatewayErrorIsFatal ==
    \A k \in Stages :
        resp[k] = GwError =>
            /\ pc = "exited"
            /\ exitStatus = 1
            /\ \A j \in Stages : j > k => calls[j] = 0
            /\ opens = 0
            /\ file = Prior

\* C2: when the Gateway text of a structured stage fails to decode, the
\* mapping the stage returns is the stage's declared default mapping, key for
\* key and value for value.
C2_DecodeFailureYieldsDefaults ==
    \A k \in StructuredStages :
        resp[k] = Garbage => StageVar(k) = Defaults(pipeline, k)

C2_Witness ==
    /\ \A k \in StructuredStages : resp[k] = Garbage
    /\ review = Defaults(pipeline, 5)

\* C3: when the Gateway text of a structured stage decodes into a record,
\* the stage returns that record verbatim, whatever its field values, and
\* never its default mapping instead.
C3_DecodedRecordVerbatim ==
    \A k \in StructuredStages :
        resp[k].kind = "dict" => StageVar(k) = resp[k].rec

\* C4: a run in which no Gateway call errors (whatever subset of the
\* structured stages failed to decode) executes all five stages, reaches the
\* save step and exits with status 0.
C4_DecodeFailureNeverAborts ==
    (/\ pc = "exited"
     /\ ~Interrupted
     /\ resp[1] # NoCall
     /\ \A k \in Stages : resp[k] # GwError)
    => /\ \A k \in Stages : calls[k] = 1
       /\ opens = 1 \/ "save_error" \in printed
       /\ exitStatus = 0


\* the value v appears in the rendered prompt pr: it was substituted for one
\* of the template's placeholders (the empty string appears in any text)
PromptContains(pr, v) == v = "" \/ \E f \in DOMAIN pr : pr[f] = v

\* the stage-2 fields that the stage-3 template has a placeholder for
Stage3ToolFields ==
    IF pipeline = "bot"
    THEN {"framework_version", "database", "additional_libraries", "state_management"}
    ELSE {"structure", "use_emoji", "cta", "hashtags"}

\* C5 as stated: after unparsable text at stage 2, the stage-3 prompt
\* contains every stage-2 default value verbatim.
C5_PromptHasEveryStage2Default ==
    (resp[2] = Garbage /\ resp[3] # NoCall) =>
        \A f \in DOMAIN Defaults(pipeline, 2) :
            PromptContains(prompts[3], Str(Defaults(pipeline, 2)[f]))

\* C5 amended: after unparsable text at stage 2, stage 2's fields equal its
\* declared defaults; the stage-3 prompt renders the default value of every
\* stage-2 field the stage-3 template references; and the generation stage
\* still runs (unless the operator interrupts) and completes with the
\* artifact computed from the Gateway's text.
C5_Stage2FallbackFeedsStage3 ==
    resp[2] = Garbage =>
        /\ tools = Defaults(pipeline, 2)
        /\ resp[3] # NoCall =>
              \A f \in Stage3ToolFields :
                  prompts[3][f] = Str(Defaults(pipeline, 2)[f])
        /\ (pc = "exited" /\ ~Interrupted) => calls[4] = 1
        /\ resp[4].kind = "text" =>
              /\ code = Artifact
              /\ pc \in {"stage5", "persist", "writing", "exited"}

C5_Witness ==
    /\ pipeline = "bot"
    /\ resp[2] = Garbage
    /\ \A k \in {1, 3, 5} : resp[k].kind = "dict"
    /\ resp[4].kind = "text"
    /\ prompts[3]["framework_version"] = "aiogram 3.x"
    /\ pc = "exited"
    /\ exitStatus = 0

\* the stage the orchestrator is about to run, 6 once all five have returned
Position ==
    CASE pc = "main" -> 1
      [] pc = "stage1" -> 1
      [] pc = "stage2" -> 2
      [] pc = "stage3" -> 3
      [] pc = "stage4" -> 4
      [] pc = "stage5" -> 5
      [] pc \in {"persist", "writing"} -> 6
      [] OTHER -> 0

\* C6: the stages run in the order 1..5, then the save step: the Gateway is
\* invoked at most once per stage, stage k+1 only after stage k has returned,
\* the file is opened only after all five, and a decode failure makes no
\* second call.
C6_FixedLinearOrder ==
    /\ \A k \in Stages :
          /\ calls[k] <= 1
          /\ calls[k] = 1 <=> resp[k] # NoCall
          /\ calls[k] = 1 => \A j \in 1..(k - 1) : calls[j] = 1
          /\ (k # 4 /\ calls[k] = 1) => StageVar(k) # Unbound
    /\ Position # 0 =>
          \A k \in Stages : calls[k] = (IF k < Position THEN 1 ELSE 0)
    /\ opens > 0 => \A k \in Stages : calls[k] = 1

C6_Witness ==
    /\ pc = "exited"
    /\ exitStatus = 0
    /\ opens = 1
    /\ resp[1] = Garbage
    /\ resp[3] = Garbage
    /\ \A k \in Stages : calls[k] = 1

\* C7: the output file is opened for writing at most once per run, and only
\* after the review stage has returned a decoded or a fallback verdict.
C7_PersistOnceAfterReview ==
    /\ opens <= 1
    /\ (opens = 1 \/ file # Prior) =>
          /\ calls[5] = 1
          /\ review # Unbound
          /\ review = StageChain(pipeline, 5, resp[5])

C7_Witness ==
    /\ opens = 1
    /\ resp[5] = Garbage
    /\ review = Defaults(pipeline, 5)
    /\ FileComplete

\* C8: when the run has ended, the output file holds either its prior
\* content or the complete output of the run, never part of it.
C8_NoPartialArtifact ==
    pc = "exited" => file = Prior \/ FileComplete

\* C9: whatever the verdict, the step after stage 5 is the save step, stage 4
\* is not invoked again, and the text saved and returned is the stage-4 text.
C9_ReviewIsAdvisory ==
    /\ review # Unbound =>
          /\ pc \in {"persist", "writing", "exited"}
          /\ calls[4] = 1
          /\ code = Artifact
    /\ returned.set => returned.value = Artifact
    /\ \A i \in 1..Len(file) :
          (file[i].part = "body" /\ file[i].complete) => file[i].text = Artifact

C9_Witness ==
    /\ pipeline = "bot"
    /\ resp[5].kind = "dict"
    /\ "is_valid" \in DOMAIN review
    /\ review["is_valid"] = PyStr("no")
    /\ "recommendations" \in printed
    /\ FileComplete
    /\ returned = Return(Artifact)
    /\ exitStatus = 0

\* C10: when writing the output file fails, the failure is reported, the
\* pipeline function returns the stage-4 artifact and the process exits
\* with status 0.
C10_SaveFailureNonFatal ==
    "save_error" \in printed =>
        /\ returned = Return(Artifact)
        /\ pc = "exited"
        /\ exitStatus = 0

C10_Witness ==
    /\ "save_error" \in printed
    /\ opens = 1
    /\ file # Prior
    /\ returned = Return(code)
    /\ exitStatus = 0


\* C11: an operator interrupt ends the process with a "cancelled" status
\* that is neither the success status 0 nor the failure status 1, and the
\* output file is not written in that run.
C11_InterruptHasOwnStatus ==
    Interrupted =>
        /\ exitStatus \notin {0, 1}
        /\ opens = 0
        /\ file = Prior

\* a precondition of the run is missing: the credential or the brief
PreconditionFails == ~hasKey \/ Len(argv) < 1

\* C12: with the credential or the brief missing, no prompt is rendered, the
\* Gateway is never called, no stage returns, the output file is untouched,
\* and the process (unless interrupted first) exits with status 1.
C12_PreconditionFailureFatal ==
    PreconditionFails =>
        /\ \A k \in Stages :
              calls[k] = 0 /\ resp[k] = NoCall /\ prompts[k] = Unbound
        /\ analysis = Unbound /\ tools = Unbound /\ structure = Unbound
        /\ review = Unbound /\ returned = NoReturn
        /\ opens = 0 /\ file = Prior
        /\ pc \in {"main", "stage1", "exited"}
        /\ (pc = "exited" /\ ~Interrupted) =>
              /\ exitStatus = 1
              /\ printed \in {{"usage"}, {"no_api_key"}}

C12_Witness ==
    /\ ~hasKey
    /\ Len(argv) >= 1
    /\ pc = "exited"
    /\ exitStatus = 1
    /\ printed = {"no_api_key"}

\* the second invocation ran all five stages and saved its file
SecondRunComplete ==
    /\ run = 2
    /\ pc = "exited"
    /\ exitStatus = 0
    /\ "success" \in printed

\* C13 as stated: two full runs with the same brief and stub return the same
\* artifact and leave the same output file.
C13_RunsByteIdentical ==
    SecondRunComplete => returned = prev.returned /\ file = prev.file

\* C13 amended: the two runs return the same artifact; the bot file is the
\* same; the post file is the same except for its generation-date line.
C13_RunsIdenticalButDate ==
    SecondRunComplete =>
        /\ returned = prev.returned
        /\ Len(file) = Len(prev.file)
        /\ \A i \in 1..Len(file) :
              file[i].part # "date" => file[i] = prev.file[i]
        /\ pipeline = "bot" => file = prev.file

C13_Witness ==
    /\ SecondRunComplete
    /\ pipeline = "post"
    /\ returned = prev.returned
    /\ file # prev.file
    /\ file[4] = prev.file[4]
    /\ code # <<>>

\* C14: after the first N stages the orchestrator holds, for each of them,
\* exactly the value that stage returned; a later stage's value never drops
\* or changes an earlier one.
C14_ContextMonotone ==
    /\ \A k \in StructuredStages :
          resp[k] # NoCall => StageVar(k) = StageChain(pipeline, k, resp[k])
    /\ resp[4].kind = "text" => code = Artifact
    /\ \A k \in StructuredStages : resp[k] = NoCall => StageVar(k) = Unbound

C14_Witness ==
    /\ pc = "persist"
    /\ \A k \in StructuredStages : resp[k].kind = "dict" /\ StageVar(k) = resp[k].rec
    /\ code = Artifact
    /\ analysis # tools /\ tools # structure /\ structure # review


----------------------------------------------------------------------------
(* Stage 4 alone *)

\* the raw text handed to the clean-up
Raw == resp[4].text

Unwrapped == pc = "unwrapped"

\* the text after the first occurrence of opener, up to the next fence or,
\* when no fence follows, to the end of the text
FenceContent(t, opener) ==
    LET i == Find(t, opener)
        rest == SubSeq(t, i + Len(opener), Len(t))
        j == Find(rest, Fence)
    IN IF j = 0 THEN rest ELSE SubSeq(rest, 1, j - 1)

\* t without its leading and trailing whitespace, by positions
Trimmed(t) ==
    LET inked == {i \in 1..Len(t) : t[i] \notin Whitespace}
    IN IF inked = {}
       THEN <<>>
       ELSE SubSeq(t, CHOOSE i \in inked : \A j \in inked : i <= j,
                      CHOOSE i \in inked : \A j \in inked : j <= i)

\* the reference behaviour of the unwrapper as the specification words it
ReferenceUnwrap(t) ==
    IF Contains(t, TaggedFence) THEN FenceContent(t, TaggedFence)
    ELSE IF Contains(t, Fence) THEN FenceContent(t, Fence)
    ELSE Trimmed(t)

\* C15 as stated: on every raw text the bot's stage-4 result equals the
\* reference: the content strictly between the first language-tagged opener
\* and the next closing fence when a tagged opener exists, else the same for
\* the first untagged fence, else the raw text with outer whitespace trimmed.
C15_UnwrapEqualsReference ==
    (Unwrapped /\ pipeline = "bot") => code = ReferenceUnwrap(Raw)

\* the text after the first tagged opener, cut at the next tagged opener and
\* then at the first fence that lies wholly before that cut
TaggedContent(t) ==
    LET i == Find(t, TaggedFence)
        rest == SubSeq(t, i + Len(TaggedFence), Len(t))
        n == Find(rest, TaggedFence)
        seg == IF n = 0 THEN rest ELSE SubSeq(rest, 1, n - 1)
        j == Find(seg, Fence)
    IN IF j = 0 THEN seg ELSE SubSeq(seg, 1, j - 1)

TrimmedReference(t) ==
    IF Contains(t, TaggedFence) THEN Trimmed(TaggedContent(t))
    ELSE IF Contains(t, Fence) THEN Trimmed(FenceContent(t, Fence))
    ELSE Trimmed(t)

\* C15 amended: on every raw text the bot's stage-4 result is trimmed of
\* outer whitespace in all three cases: when a language-tagged opener exists
\* it is the trimmed text after the first tagged opener up to the next fence
\* lying wholly before the next tagged opener (up to that next tagged opener,
\* or to the end of the text, when there is no such fence); else, when a
\* fence exists, the trimmed text after the first fence up to the next fence
\* or the end of the text; else the trimmed raw text.
C15_UnwrapEqualsTrimmedReference ==
    (Unwrapped /\ pipeline = "bot") => code = TrimmedReference(Raw)

\* a tagged block whose content carries whitespace next to the fences has
\* been cleaned up
C15_Witness ==
    /\ Unwrapped
    /\ pipeline = "bot"
    /\ Contains(Raw, TaggedFence)
    /\ FenceContent(Raw, TaggedFence) # Trimmed(FenceContent(Raw, TaggedFence))
    /\ code # <<>>


\* the text a wrapper of the given opener and padding encloses
Inner(t, opener, pad) ==
    SubSeq(t, Len(opener) + Len(pad) + 1, Len(t) - Len(Fence) - Len(pad))

\* t is a fence-free text wrapped in opener ... fence, the fences either
\* directly around the text (pad empty) or on lines of their own
IsWrapped(t, opener, pad) ==
    /\ Len(t) >= Len(opener) + 2 * Len(pad) + Len(Fence)
    /\ SubSeq(t, 1, Len(opener) + Len(pad)) = opener \o pad
    /\ SubSeq(t, Len(t) - Len(Fence) - Len(pad) + 1, Len(t)) = pad \o Fence
    /\ ~Contains(Inner(t, opener, pad), Fence)

\* C16: for every text T without the fence delimiter, T with outer
\* whitespace and T beginning with the language tag included, wrapping T in
\* a tagged or an untagged fence and unwrapping it returns exactly T.
C16_RoundTripExact ==
    (Unwrapped /\ pipeline = "bot") =>
        \A opener \in {TaggedFence, Fence} : \A pad \in {<<>>, <<"\n">>} :
            IsWrapped(Raw, opener, pad) => code = Inner(Raw, opener, pad)


\* number of fence delimiters in t, counted left to right without overlap
RECURSIVE CountFences(_)
CountFences(t) ==
    IF Contains(t, Fence) THEN 1 + CountFences(SplitRest(t, Fence)) ELSE 0

\* at least two fenced blocks: opener, closer, opener, closer
SeveralBlocks(t) == CountFences(t) >= 4

\* the content of the first fenced block of the text, tagged or not
FirstBlock(t) ==
    IF IsAt(t, TaggedFence, Find(t, Fence))
    THEN FenceContent(t, TaggedFence)
    ELSE FenceContent(t, Fence)

\* C17 as stated, the final trim allowed for: when the raw text holds several
\* fenced blocks, in any mix and order of tagged and untagged ones, the
\* result is the content of the first fenced block of the text and nothing
\* after its closing fence.
C17_FirstBlockWins ==
    (Unwrapped /\ pipeline = "bot" /\ SeveralBlocks(Raw)) =>
        code \in {FirstBlock(Raw), Trimmed(FirstBlock(Raw))}

\* C17 amended: when the raw text holds several fenced blocks, the result is
\* the trimmed content of the first language-tagged block whenever a tagged
\* opener occurs anywhere in the text, even after an untagged block, and the
\* trimmed content of the first fenced block only when no opener is tagged;
\* it holds no fence delimiter, so all that follows the closing fence of the
\* chosen block is discarded.
C17_FirstTaggedBlockWins ==
    (Unwrapped /\ pipeline = "bot" /\ SeveralBlocks(Raw)) =>
        /\ Contains(Raw, TaggedFence) => code = Trimmed(TaggedContent(Raw))
        /\ ~Contains(Raw, TaggedFence) => code = Trimmed(FirstBlock(Raw))
        /\ ~Contains(code, Fence)

\* an untagged block comes first, a tagged block follows, and the result is
\* the tagged block's content
C17_Witness ==
    /\ Unwrapped
    /\ pipeline = "bot"
    /\ SeveralBlocks(Raw)
    /\ Contains(Raw, TaggedFence)
    /\ Find(Raw, Fence) < Find(Raw, TaggedFence)
    /\ code # Trimmed(FirstBlock(Raw))
    /\ code = Trimmed(TaggedContent(Raw))

\* C18 as stated: in the post pipeline as in the bot pipeline a stage-4
\* output that holds a fence yields the fence's inner text as the artifact,
\* with no fence delimiter left in it.
C18_BothPipelinesUnwrap ==
    (Unwrapped /\ Contains(Raw, Fence)) =>
        /\ code = TrimmedReference(Raw)
        /\ ~Contains(code, Fence)

\* C18 amended: only the bot pipeline passes the stage-4 text through the
\* unwrapper, and its artifact holds no fence delimiter; the post pipeline's
\* artifact is the raw stage-4 text trimmed of outer whitespace, fence
\* delimiters and the text around them kept.
C18_OnlyBotUnwraps ==
    Unwrapped =>
        /\ pipeline = "bot" => (code = TrimmedReference(Raw) /\ ~Contains(code, Fence))
        /\ pipeline = "post" => code = Trimmed(Raw)

\* a fenced post text has gone through stage 4 and kept its fences
C18_Witness ==
    /\ Unwrapped
    /\ pipeline = "post"
    /\ IsWrapped(Raw, TaggedFence, <<"\n">>)
    /\ Inner(Raw, TaggedFence, <<"\n">>) # <<>>
    /\ code = Raw


----------------------------------------------------------------------------
(* The output file and the exit status of a complete run *)

\* the save step opened the file and every f.write returned
PersistSucceeded ==
    /\ opens = 1
    /\ written = NumChunks
    /\ "save_error" \notin printed

\* C19: after a successful save the output file holds nothing of its prior
\* content and is determined by the run: in the bot pipeline the artifact
\* alone, with no header; in the post pipeline the topic line, the
\* generation-timestamp line and the separator, followed by the artifact.
C19_FileIsThisRunsOutput ==
    PersistSucceeded =>
        /\ \A i \in 1..Len(file) : file[i].part # "prior" /\ file[i].complete
        /\ pipeline = "bot" => file = <<Chunk("body", Artifact)>>
        /\ pipeline = "post" =>
              /\ Len(file) = 4
              /\ file[1] = Chunk("topic", <<Description>>)
              /\ \E t \in Timestamps : file[2] = Chunk("date", <<t>>)
              /\ file[3] = Chunk("separator", <<>>)
              /\ file[4] = Chunk("body", Artifact)

\* a post run has saved its file over the prior content and ended
C19_Witness ==
    /\ PersistSucceeded
    /\ pipeline = "post"
    /\ pc = "exited"
    /\ "success" \in printed
    /\ file # Prior
    /\ Len(file) = 4
    /\ code # <<>>

\* C20: a bot run in which all five stages returned and generated_bot.py was
\* written exits with status 0, whatever the decoded stage-2 record, a record
\* whose additional_libraries is a non-empty list included.
C20_CompleteBotRunExitsZero ==
    (/\ pipeline = "bot"
     /\ \A k \in Stages : calls[k] = 1
     /\ PersistSucceeded
     /\ FileComplete
     /\ pc = "exited"
     /\ ~Interrupted) => exitStatus = 0


----------------------------------------------------------------------------
(* Error handling of the generation and review stages; read-time fallbacks *)

\* C21: in both pipelines an exception raised by the generation stage is not
\* caught locally: it leaves generate_bot / generate_post, the review stage
\* is never invoked, the output file is not opened, nothing is returned and
\* main exits with status 1.
C21_Stage4ErrorPropagates ==
    resp[4] = GwError =>
        /\ pc = "exited"
        /\ exitStatus = 1
        /\ "error" \in printed
        /\ calls[5] = 0
        /\ review = Unbound
        /\ opens = 0
        /\ file = Prior
        /\ ~returned.set

\* the Gateway failed at stage 4 after three stages that returned records
C21_Witness ==
    /\ resp[4] = GwError
    /\ calls[4] = 1
    /\ \A k \in 1..3 : resp[k].kind = "dict"
    /\ pc = "exited"
    /\ exitStatus = 1

\* the placeholder under which stage k renders field f of an earlier record
Slot(k, f) ==
    IF pipeline = "post" /\ k = 4 /\ f = "structure" THEN "structure_format" ELSE f

\* stage k has rendered its prompt with a placeholder for field f
Renders(k, f) ==
    /\ prompts[k] # Unbound
    /\ Slot(k, f) \in DOMAIN prompts[k]

\* C22: a field that several later stages read from the record of an earlier
\* stage s, and that is absent from the successfully decoded record, renders
\* identically in the prompt of every later stage (every stage substitutes
\* the same fallback value).
C22_FallbacksAgreeAcrossStages ==
    \A s \in 1..2 : \A f \in DOMAIN Defaults(pipeline, s) :
        \A j \in (s + 1)..4 : \A k \in (j + 1)..4 :
            (/\ resp[s].kind = "dict"
             /\ f \notin DOMAIN resp[s].rec
             /\ Renders(j, f)
             /\ Renders(k, f)) =>
                prompts[j][Slot(j, f)] = prompts[k][Slot(k, f)]

\* the key under which the review verdict carries its validity
ValidKey == IF pipeline = "bot" THEN "is_valid" ELSE "is_ready"

\* the review chain raised: Gateway error, undecodable text, or a decoded
\* value without .get
ReviewFellBack == resp[5].kind \in {"error", "garbage", "nondict"}

\* C23: whenever the review stage ends in fallback, the validity shown to the
\* operator is "yes", the recommendations line is not printed, and the run
\* goes on to the save step with the stage-4 artifact unchanged: whatever
\* body reaches the file is that artifact.
C23_ReviewFallbackAccepts ==
    ReviewFellBack =>
        /\ Str(Get(review, ValidKey, PyStr("yes"))) = "yes"
        /\ "recommendations" \notin printed
        /\ pc \in {"persist", "writing", "exited"}
        /\ code = Artifact
        /\ \A i \in 1..Len(file) :
              (file[i].part = "body" /\ file[i].complete) => file[i].text = Artifact
        /\ PersistSucceeded => FileComplete
        /\ returned.set => returned.value = Artifact

\* the Gateway failed at the review stage and the artifact was saved
C23_Witness ==
    /\ resp[5] = GwError
    /\ FileComplete
    /\ PersistSucceeded
    /\ "success" \in printed
    /\ returned = Return(Artifact)


----------------------------------------------------------------------------
(* The parent program *)

\* C24: generate_telegram_bot prints its success message only if the child
\* run wrote generated_bot.py in that run: never for a child that the
\* operator interrupted or whose file write failed.
C24_ParentSuccessMeansFileWritten ==
    "parent_success" \in printed =>
        /\ opens = 1
        /\ FileComplete
        /\ ~Interrupted
        /\ "save_error" \notin printed


\* C27: get_prompt(index) returns the (index-1)-th loaded prompt (counted
\* from 0) for every integer index with 1 <= index <= len(prompts) and None
\* for every other integer; it returns in every case and leaves the loaded
\* list as it was.
C27_GetPromptInRangeOrNone ==
    [][cli.pc = "get_prompt" =>
          /\ cli'.pc = "got"
          /\ cli'.got.set
          /\ cli'.prompts = cli.prompts
          /\ cli.index \in 1..Len(cli.prompts) =>
                cli'.got.value = cli.prompts[cli.index]
          /\ cli.index \notin 1..Len(cli.prompts) =>
                cli'.got.value = PyNone]_vars

\* the last prompt of a full list has been fetched, and it is the empty object
C27_Witness ==
    /\ cli.pc = "got"
    /\ Len(cli.prompts) = MaxPrompts
    /\ cli.index = MaxPrompts
    /\ cli.got = Return(EmptyPrompt)


\* C26: in the selection loop every entered integer i with 1 <= i <= number
\* of loaded prompts selects prompt i, the empty-object prompt included, and
\* only other integers are rejected; send_request gets only the selected
\* prompt, an element of the loaded list; back in the selection state
\* (submenu choice '0' included) no request has been sent.
C26_InRangeChoiceSelects ==
    /\ cli.said = "bad_number" => cli.index \notin 1..Len(cli.prompts)
    /\ cli.said = "selected" =>
          /\ cli.index \in 1..Len(cli.prompts)
          /\ cli.selected_prompt = cli.prompts[cli.index]
    /\ \A n \in 1..Len(cli.sent) :
          /\ cli.sent[n] = cli.selected_prompt
          /\ \E i \in 1..Len(cli.prompts) : cli.sent[n] = cli.prompts[i]
    /\ cli.pc \in {"select", "submenu", "bot"} => cli.sent = <<>>


\* C25: after a first line 'file:<path>' failed because the file was not
\* found, a second line 'file:<path>' naming a readable file makes
\* get_multiline_input return the content of that file, as the printed
\* prompt offers.
C25_SecondFilePathIsRead ==
    (/\ cli.pc = "returned"
     /\ Len(cli.typed) >= 2
     /\ IsFileLine(cli.typed[1])
     /\ cli.disk[PathOf(cli.typed[1])] = "missing"
     /\ IsFileLine(cli.typed[2])
     /\ cli.disk[PathOf(cli.typed[2])] = "ok") =>
        cli.content = Return(FromFile(PathOf(cli.typed[2])))

====
